---------------------------- MODULE Spec2Model ----------------------------
(***************************************************************************)
(* A model of the mini framework of src/src/frame.js (createElement,       *)
(* render, renderElement, createStore) and of the variant of createStore   *)
(* printed in the repository's README (src/unnamed/part_000), whose        *)
(* unsubscribe differs from the module's.                                  *)
(*                                                                         *)
(* The store is modelled with its call stack: dispatch is synchronous and  *)
(* listeners are arbitrary callbacks that may call back into the store, so *)
(* a dispatch frame records the statement it is at and the position of its *)
(* forEach loop.  JavaScript is single threaded: only the code on top of   *)
(* the stack takes steps.                                                  *)
(***************************************************************************)
EXTENDS Naturals, Integers, Sequences, FiniteSets

(***************************************************************************)
(* Bounds of the model.                                                    *)
(***************************************************************************)
MaxCalls == 5         \* store calls made by the application and by free listeners
StackLimit == 3       \* nested dispatch calls the engine allows before RangeError
MaxNodes == 4         \* nodes of a vNode tree handed to render
MaxArgs == 2          \* children arguments of a createElement call
MaxRenders == 2       \* render calls in a run

(***************************************************************************)
(* The inputs of the store: reducers, actions, listener functions.         *)
(***************************************************************************)
Undefined == -1

\* (s = 0, a) => a.type === 'INC' ? s + 1 : s
counterReducer(s, a) ==
    LET prev == IF s = Undefined THEN 0 ELSE s
    IN  IF a = "INC" THEN prev + 1 ELSE prev

\* (s = 0, a) => a.type === 'SET' ? 1 : s   (a fixed point after one step)
latchReducer(s, a) ==
    LET prev == IF s = Undefined THEN 0 ELSE s
    IN  IF a = "SET" THEN 1 ELSE prev

\* (s = 0, a) => a.type === 'INC' ? 1 : a.type === 'SET' ? 2 : s
\* (the state names the last action: the order of the actions matters)
lastReducer(s, a) ==
    LET prev == IF s = Undefined THEN 0 ELSE s
    IN  IF a = "INC" THEN 1 ELSE IF a = "SET" THEN 2 ELSE prev

Reducers == {"counter", "latch", "last"}
Actions == {"INC", "SET"}
InitAction == "__INIT__"

reducer(r, s, a) ==
    IF r = "counter" THEN counterReducer(s, a)
    ELSE IF r = "latch" THEN latchReducer(s, a)
    ELSE lastReducer(s, a)

\* dispatch(null): every reducer above reads a.type, which raises TypeError
\* when a is null.
NullAction == "null"
Throws(r, a) == a = NullAction

\* Listener functions the application may subscribe.  "f" and "g" are free:
\* when notified they make any calls into the store, chosen
\* nondeterministically (MaxCalls bounds the calls of a run), and return.
\* "re" is () => store.dispatch({type: 'SET'}).
FreeListeners == {"f", "g"}
ReListener == "re"
ReAction == "SET"

VARIABLES
    version,     \* "frame": src/src/frame.js, "readme": the README's createStore
    rd,          \* the reducer passed to createStore
    state,       \* let state
    listeners,   \* const listeners = []
    caps,        \* the unsubscribe closures returned so far: the listener each
                 \* captured, and how often it has been invoked
    stack,       \* the dispatch calls in progress, innermost last
    trace,       \* the actions dispatched so far, in the order of the calls
    seen,        \* what the most recent getState() returned
    calls,       \* how many store calls the application and free listeners made
    error,       \* the failure that ended the last top-level call, if any
    vNode,       \* the virtual node the application holds
    call,        \* the arguments of the createElement call that built it
    container,   \* container.childNodes, the children of the render target
    outcome,     \* how the last render call ended: "returned" or "threw"
    renders,     \* how many render calls were made
    peer,        \* the closure of a second createStore call: its state and
                 \* listeners, and the listeners its last dispatch called
    aborted      \* the dispatch call an exception ended most recently, if any

storeVars == <<version, rd, state, listeners, caps, stack, trace, seen, calls, error>>
viewVars == <<vNode, call, container, outcome, renders>>
otherVars == <<peer, aborted>>
vars == <<version, rd, state, listeners, caps, stack, trace, seen, calls, error,
          vNode, call, container, outcome, renders, peer, aborted>>

NotSeen == [has |-> FALSE, val |-> 0]
Saw(v) == [has |-> TRUE, val |-> v]

(***************************************************************************)
(* Array helpers, as Array.prototype defines them.                         *)
(***************************************************************************)
\* ls.filter(x => x !== l): a new array, ls itself is not changed
filter(ls, l) == SelectSeq(ls, LAMBDA x : x # l)

\* ls.indexOf(l): the first index (0-based) holding l, or -1
indexOf(ls, l) ==
    IF \E i \in 1..Len(ls) : ls[i] = l
    THEN (CHOOSE i \in 1..Len(ls) : ls[i] = l /\ \A j \in 1..(i - 1) : ls[j] # l) - 1
    ELSE -1

\* ls.splice(index, 1) for 0 <= index < length: ls without that element
splice(ls, index) ==
    [i \in 1..(Len(ls) - 1) |-> IF i <= index THEN ls[i] ELSE ls[i + 1]]

\* ls.unshift(l): l is put in front
unshift(ls, l) == <<l>> \o ls

\* ls.push(l)
push(ls, l) == Append(ls, l)

Count(ls, l) == Cardinality({i \in 1..Len(ls) : ls[i] = l})

(***************************************************************************)
(* The unsubscribe closure, in its two versions.                           *)
(***************************************************************************)
\* frame.js:79   () => listeners.filter(l => l !== listener)
\* The filtered array is the closure's return value; listeners is not assigned.
unsubscribeFrame(ls, l) ==
    LET returned == filter(ls, l)
    IN  ls

\* README:118-121   const index = listeners.indexOf(listener);
\*                  if (index > -1) listeners.splice(index, 1);
unsubscribeReadme(ls, l) ==
    LET index == indexOf(ls, l)
    IN  IF index > -1 THEN splice(ls, index) ELSE ls

unsubscribe(v, ls, l) ==
    IF v = "frame" THEN unsubscribeFrame(ls, l) ELSE unsubscribeReadme(ls, l)

(***************************************************************************)
(* createStore: the state after construction.                              *)
(***************************************************************************)
InitialState(r) == reducer(r, Undefined, InitAction)

\* The closure a further createStore(r) call allocates: its own state and its
\* own listeners array.  notified lists the listeners its last dispatch
\* called, subscribed the listeners subscribe was called with.
secondStore(r) ==
    [rd |-> r, state |-> InitialState(r), listeners |-> <<>>,
     notified |-> <<>>, subscribed |-> {}]

NotAborted == [has |-> FALSE, n |-> 0]

createStore(v) ==
    /\ version = v
    /\ rd \in Reducers
    /\ state = InitialState(rd)
    /\ listeners = <<>>
    /\ caps = <<>>
    /\ stack = <<>>
    /\ trace = <<>>
    /\ seen = NotSeen
    /\ calls = 0
    /\ error = "none"
    /\ aborted = NotAborted

(***************************************************************************)
(* dispatch.  Its body is two statements, run in order.                    *)
(***************************************************************************)
\* A dispatch that notified before it replaced the state.
DispatchBodyNotifyFirst == <<"notify", "reduce">>

\* frame.js:69-70
DispatchBody == <<"reduce", "notify">>

\* A dispatch that computed the reducer's result and did not assign it.
NextStateDropped(r, s, a) == s

\* state = reducer(state, action)
NextState(r, s, a) == reducer(r, s, a)

Top == stack[Len(stack)]
Depth == Len(stack)

\* The statement a frame is at: "reduce", "notify" or "return".
At(f) == IF f.ip <= Len(DispatchBody) THEN DispatchBody[f.ip] ELSE "return"

\* A frame moved to statement ip.  Entering the forEach fixes its range: the
\* length of listeners at that moment (ECMAScript forEach reads length once).
\* start and capsStart remember what the pass began with.
Enter(f, ip) ==
    IF ip <= Len(DispatchBody) /\ DispatchBody[ip] = "notify"
    THEN [f EXCEPT !.ip = ip, !.k = 0, !.len = Len(listeners),
                   !.start = listeners, !.capsStart = caps, !.called = <<>>]
    ELSE [f EXCEPT !.ip = ip]

NewFrame(a) ==
    [action |-> a, ip |-> 1, k |-> 0, len |-> 0, pc |-> "run", cur |-> "",
     ops |-> 0, pre |-> state, reduced |-> FALSE, nested |-> FALSE,
     resubscribed |-> FALSE, start |-> <<>>, capsStart |-> <<>>,
     called |-> <<>>]

\* Code that may call the store: the application, when no dispatch is in
\* progress, or the listener being notified by the innermost dispatch.
InListener == stack # <<>> /\ Top.pc = "listener"
AtTopLevel == stack = <<>>
FreeCaller ==
    /\ calls < MaxCalls
    /\ AtTopLevel \/ (InListener /\ Top.cur \in FreeListeners)

\* The stack after the calling listener (if any) has made one more store call.
Called(dispatches) ==
    IF stack = <<>> THEN stack
    ELSE [stack EXCEPT ![Len(stack)] =
             [@ EXCEPT !.ops = @ + 1, !.nested = @ \/ dispatches]]

\* Every dispatch in progress remembers that subscriptions changed under it.
Resubscribed(st) ==
    [i \in 1..Len(st) |-> [st[i] EXCEPT !.resubscribed = TRUE]]

SetTop(f) == [stack EXCEPT ![Len(stack)] = f]

\* A getState that handed a listener the state its own dispatch had computed.
GetStateOfOwnDispatch ==
    /\ FreeCaller
    /\ seen' = Saw(IF stack = <<>> THEN state
                   ELSE reducer(rd, Top.pre, Top.action))
    /\ stack' = Called(FALSE)
    /\ calls' = calls + 1
    /\ UNCHANGED <<version, rd, state, listeners, caps, trace, error>>

\* frame.js:62   getState: () => state
GetState ==
    /\ FreeCaller
    /\ seen' = Saw(state)
    /\ stack' = Called(FALSE)
    /\ calls' = calls + 1
    /\ UNCHANGED <<version, rd, state, listeners, caps, trace, error>>

\* frame.js:68   a call of dispatch(action): a new frame, at its first statement
Dispatch(a) ==
    /\ FreeCaller
    /\ stack' = Append(Called(TRUE), Enter(NewFrame(a), 1))
    /\ trace' = Append(trace, a)
    /\ seen' = NotSeen
    /\ error' = IF AtTopLevel THEN "none" ELSE error
    /\ calls' = calls + 1
    /\ UNCHANGED <<version, rd, state, listeners, caps>>

\* frame.js:69   state = reducer(state, action)
Reduce ==
    /\ stack # <<>>
    /\ Top.pc = "run"
    /\ At(Top) = "reduce"
    /\ ~Throws(rd, Top.action)
    /\ state' = NextState(rd, state, Top.action)
    /\ stack' = SetTop(Enter([Top EXCEPT !.reduced = TRUE], Top.ip + 1))
    /\ seen' = NotSeen
    /\ UNCHANGED <<version, rd, listeners, caps, trace, calls, error>>

\* A loop that compared its index with listeners.length on every iteration.
ForEachLengthLive(f) == Len(listeners)

\* The range of the forEach of frame f: the length it read when it began.
ForEachLength(f) == f.len

\* frame.js:70   one iteration of listeners.forEach(listener => listener()):
\* index k is visited if it is below the length read at the start; the callback
\* runs if the array still has an element there.
Notify ==
    /\ stack # <<>>
    /\ Top.pc = "run"
    /\ At(Top) = "notify"
    /\ Top.k < ForEachLength(Top)
    /\ IF Top.k < Len(listeners)
       THEN stack' = SetTop([Top EXCEPT !.pc = "listener",
                                        !.cur = listeners[Top.k + 1],
                                        !.ops = 0,
                                        !.called = Append(@, listeners[Top.k + 1])])
       ELSE stack' = SetTop([Top EXCEPT !.k = @ + 1])
    /\ seen' = NotSeen
    /\ UNCHANGED <<version, rd, state, listeners, caps, trace, calls, error>>

\* A forEach that gave up the rest of its range once a listener had
\* dispatched: the nested pass stood in for the outer one.
ListenerReturnDropsRest ==
    /\ InListener
    /\ Top.cur \in FreeListeners \/ Top.ops >= 1
    /\ stack' = SetTop([Top EXCEPT !.pc = "run", !.cur = "",
                                   !.k = IF Top.nested THEN Top.len ELSE @ + 1])
    /\ UNCHANGED <<version, rd, state, listeners, caps, trace, seen, calls, error>>

\* The listener being notified returns; forEach moves to the next index.
\* "re" returns once its dispatch call has returned.
ListenerReturn ==
    /\ InListener
    /\ Top.cur \in FreeListeners \/ Top.ops >= 1
    /\ stack' = SetTop([Top EXCEPT !.pc = "run", !.cur = "", !.k = @ + 1])
    /\ UNCHANGED <<version, rd, state, listeners, caps, trace, seen, calls, error>>

\* forEach has visited every index of its range.
EndNotify ==
    /\ stack # <<>>
    /\ Top.pc = "run"
    /\ At(Top) = "notify"
    /\ Top.k >= ForEachLength(Top)
    /\ stack' = SetTop(Enter(Top, Top.ip + 1))
    /\ UNCHANGED <<version, rd, state, listeners, caps, trace, seen, calls, error>>

\* frame.js:71   dispatch returns to its caller.
DispatchReturn ==
    /\ stack # <<>>
    /\ Top.pc = "run"
    /\ At(Top) = "return"
    /\ stack' = SubSeq(stack, 1, Len(stack) - 1)
    /\ UNCHANGED <<version, rd, state, listeners, caps, trace, seen, calls, error>>

\* frame.js:77-79   subscribe(listener): push, and return the closure
Subscribe(l) ==
    /\ FreeCaller
    /\ listeners' = push(listeners, l)
    /\ caps' = Append(caps, [listener |-> l, uses |-> 0])
    /\ stack' = Resubscribed(Called(FALSE))
    /\ calls' = calls + 1
    /\ UNCHANGED <<version, rd, state, trace, seen, error>>

\* A call of the closure that the c-th subscribe call returned.
Unsubscribe(c) ==
    /\ FreeCaller
    /\ c \in DOMAIN caps
    /\ listeners' = unsubscribe(version, listeners, caps[c].listener)
    /\ caps' = [caps EXCEPT ![c].uses = @ + 1]
    /\ stack' = Resubscribed(Called(FALSE))
    /\ calls' = calls + 1
    /\ UNCHANGED <<version, rd, state, trace, seen, error>>

\* The body of "re": store.dispatch({type: 'SET'}), whatever the state is.
\* Past the engine's stack limit the call raises RangeError, which no frame
\* catches: every dispatch in progress is abandoned.
ReDispatch ==
    /\ InListener
    /\ Top.cur = ReListener
    /\ Top.ops = 0
    /\ IF Depth >= StackLimit
       THEN /\ stack' = <<>>
            /\ error' = "RangeError"
            /\ UNCHANGED trace
       ELSE /\ stack' = Append(Called(TRUE), Enter(NewFrame(ReAction), 1))
            /\ trace' = Append(trace, ReAction)
            /\ UNCHANGED error
    /\ seen' = NotSeen
    /\ UNCHANGED <<version, rd, state, listeners, caps, calls>>

(***************************************************************************)
(* Exceptions.  dispatch has no try block: an exception raised by the      *)
(* reducer or by a listener leaves the dispatch call at once and reaches   *)
(* its caller, the application or the listener that called dispatch.       *)
(***************************************************************************)
\* The stack once an exception has left its innermost dispatch call: the call
\* is gone and its caller, if a listener, has the exception raised in it.
Raise(st) ==
    LET rest == SubSeq(st, 1, Len(st) - 1)
    IN  IF rest = <<>> THEN rest
        ELSE [rest EXCEPT ![Len(rest)].pc = "raised"]

\* The record of the dispatch call f that an exception ended.
Aborted(cause, f) ==
    [has |-> TRUE, n |-> aborted.n + 1, cause |-> cause, frame |-> f,
     state |-> state]

\* A dispatch that caught the reducer's exception and went on to notify.
ReduceThrowsSwallowed ==
    /\ stack # <<>>
    /\ Top.pc = "run"
    /\ At(Top) = "reduce"
    /\ Throws(rd, Top.action)
    /\ stack' = SetTop(Enter(Top, Top.ip + 1))
    /\ aborted' = Aborted("reducer", Top)
    /\ UNCHANGED <<version, rd, state, listeners, caps, trace, seen, calls, error>>

\* frame.js:69   reducer(state, action) raises: the assignment does not happen
\* and the forEach is not reached.
ReduceThrows ==
    /\ stack # <<>>
    /\ Top.pc = "run"
    /\ At(Top) = "reduce"
    /\ Throws(rd, Top.action)
    /\ stack' = Raise(stack)
    /\ aborted' = Aborted("reducer", Top)
    /\ error' = IF Len(stack) = 1 THEN "TypeError" ELSE error
    /\ UNCHANGED <<version, rd, state, listeners, caps, trace, seen, calls>>

\* A forEach that ran each listener in a try block and went on with the next.
ListenerThrowsIsolated ==
    /\ stack # <<>>
    /\ Top.pc \in {"listener", "raised"}
    /\ Top.cur \in FreeListeners
    /\ stack' = SetTop([Top EXCEPT !.pc = "run", !.cur = "", !.k = @ + 1])
    /\ aborted' = Aborted("listener", Top)
    /\ UNCHANGED <<version, rd, state, listeners, caps, trace, seen, calls, error>>

\* frame.js:70   the listener being notified raises, by a throw of its own or
\* by not catching the exception of a dispatch it called: forEach ends and
\* the exception leaves this dispatch too.
ListenerThrows ==
    /\ stack # <<>>
    /\ Top.pc \in {"listener", "raised"}
    /\ Top.cur \in FreeListeners
    /\ stack' = Raise(stack)
    /\ aborted' = Aborted("listener", Top)
    /\ error' = IF Len(stack) = 1 THEN "Error" ELSE error
    /\ UNCHANGED <<version, rd, state, listeners, caps, trace, seen, calls>>

\* The listener called dispatch in a try block: it catches and goes on.
Catch ==
    /\ stack # <<>>
    /\ Top.pc = "raised"
    /\ Top.cur \in FreeListeners
    /\ stack' = SetTop([Top EXCEPT !.pc = "listener"])
    /\ UNCHANGED <<version, rd, state, listeners, caps, trace, seen, calls, error,
                   aborted>>

StoreNext ==
    \/ GetState
    \/ \E a \in Actions : Dispatch(a)
    \/ Reduce
    \/ Notify
    \/ ListenerReturn
    \/ EndNotify
    \/ DispatchReturn
    \/ \E l \in FreeListeners : Subscribe(l)
    \/ \E c \in DOMAIN caps : Unsubscribe(c)

(***************************************************************************)
(* A second store.  Every createStore call runs "let state" and "const     *)
(* listeners = []" anew, so the methods it returns close over variables of *)
(* their own.  The second store's listener "p" makes no store calls, so    *)
(* one of its dispatch calls is a single step.                             *)
(***************************************************************************)
PeerListeners == {"p"}

\* The variables the two createStore calls allocated.
Closures ==
    [first |-> [state |-> state, listeners |-> listeners],
     second |-> [state |-> peer.state, listeners |-> peer.listeners]]

\* A createStore whose state and listeners were declared at module level:
\* every store's methods reach the same variables.
ClosureAmbient(store) == "first"

\* frame.js:53-55   the variables the methods of a store close over: those of
\* the createStore call that returned them.
ClosureOf(store) == store

\* The variables take the values of the closures cs.
Assigned(cs) ==
    /\ state' = cs.first.state
    /\ listeners' = cs.first.listeners
    /\ peer' = [peer EXCEPT !.state = cs.second.state,
                            !.listeners = cs.second.listeners]

\* second.dispatch(action): frame.js:69-70 on the second store's closure
PeerDispatch(a) ==
    /\ FreeCaller
    /\ LET own == ClosureOf("second")
           reduced == [Closures EXCEPT ![own].state = NextState(peer.rd, @, a)]
       IN  /\ state' = reduced.first.state
           /\ listeners' = reduced.first.listeners
           /\ peer' = [peer EXCEPT !.state = reduced.second.state,
                                   !.listeners = reduced.second.listeners,
                                   !.notified = reduced[own].listeners]
    /\ stack' = Called(FALSE)
    /\ calls' = calls + 1
    /\ UNCHANGED <<version, rd, caps, trace, seen, error, aborted>>

\* second.subscribe(listener): frame.js:78
PeerSubscribe(l) ==
    /\ FreeCaller
    /\ LET own == ClosureOf("second")
           pushed == [Closures EXCEPT ![own].listeners = push(@, l)]
       IN  /\ state' = pushed.first.state
           /\ listeners' = pushed.first.listeners
           /\ peer' = [peer EXCEPT !.state = pushed.second.state,
                                   !.listeners = pushed.second.listeners,
                                   !.subscribed = @ \cup {l}]
    /\ stack' = Called(FALSE)
    /\ calls' = calls + 1
    /\ UNCHANGED <<version, rd, caps, trace, seen, error, aborted>>

\* A call of a closure second.subscribe(l) returned: frame.js:79
PeerUnsubscribe(l) ==
    /\ FreeCaller
    /\ l \in peer.subscribed
    /\ LET own == ClosureOf("second")
       IN  Assigned([Closures EXCEPT ![own].listeners = unsubscribe(version, @, l)])
    /\ stack' = Called(FALSE)
    /\ calls' = calls + 1
    /\ UNCHANGED <<version, rd, caps, trace, seen, error, aborted>>

PeerNext ==
    \/ \E a \in Actions : PeerDispatch(a)
    \/ \E l \in PeerListeners : PeerSubscribe(l)
    \/ \E l \in PeerListeners : PeerUnsubscribe(l)

(***************************************************************************)
(* JavaScript values of the view side.  A vNode is a string or the object  *)
(* createElement returns; an array is an object without type and props.    *)
(***************************************************************************)
Str(s) == [typeof |-> "string", value |-> s]
Array(items) == [typeof |-> "object", items |-> items]
UndefinedValue == [typeof |-> "undefined"]
EmptyObject == [k \in {} |-> ""]

\* { ...o, key: value }: o's own entries, then key set to value
SpreadWith(o, key, value) ==
    [k \in (DOMAIN o) \cup {key} |-> IF k = key THEN value ELSE o[k]]

\* A createElement that spread the props after the children: { children, ...props }
createElementPropsLast(type, props, children) ==
    LET p == IF props = UndefinedValue THEN EmptyObject ELSE props
    IN  [typeof |-> "object", type |-> type,
         props |-> [k \in (DOMAIN p) \cup {"children"} |->
                       IF k \in DOMAIN p THEN p[k] ELSE children]]

\* frame.js:9-11   (type, props = {}, ...children) => ({ type, props: { ...props, children } })
\* children is the rest parameter: the list of the arguments after props, as passed.
createElement(type, props, children) ==
    LET p == IF props = UndefinedValue THEN EmptyObject ELSE props
    IN  [typeof |-> "object", type |-> type,
         props |-> SpreadWith(p, "children", children)]

(***************************************************************************)
(* The host document: text nodes, element nodes, properties, children.     *)
(***************************************************************************)
BadTag == "<"     \* not a valid element name: document.createElement throws
Ok(node) == [ok |-> TRUE, node |-> node]
Thrown == [ok |-> FALSE]

\* document.createTextNode(data)
createTextNode(data) == [nodeType |-> "text", data |-> data]

\* document.createElement(tagName); undefined is converted to "undefined"
createElementNode(tagName) ==
    IF tagName = BadTag THEN Thrown
    ELSE Ok([nodeType |-> "element", tagName |-> tagName,
             properties |-> EmptyObject, childNodes |-> <<>>])

\* element[key] = value
setProperty(element, key, value) ==
    [element EXCEPT !.properties = SpreadWith(@, key, value)]

\* An appendChild that inserted the child before the others.
prependChild(element, child) ==
    [element EXCEPT !.childNodes = <<child>> \o @]

\* element.appendChild(child)
appendChild(element, child) ==
    [element EXCEPT !.childNodes = Append(@, child)]

\* A render that did not empty the container.
keepChildren(children) == children

\* container.innerHTML = ''
clearChildren(children) == <<>>

(***************************************************************************)
(* renderElement, frame.js:28-45.  Object.entries visits the props in      *)
(* insertion order; the host operations on different keys commute, so the  *)
(* model assigns the other props first and appends the children after.     *)
(***************************************************************************)
RECURSIVE renderElement(_), renderChildren(_, _), assignProps(_, _, _)

assignProps(element, props, keys) ==
    IF keys = {} THEN element
    ELSE LET key == CHOOSE k \in keys : TRUE
         IN  assignProps(setProperty(element, key, props[key]), props, keys \ {key})

\* value.forEach(child => element.appendChild(renderElement(child)))
renderChildren(element, children) ==
    IF children = <<>> THEN Ok(element)
    ELSE LET child == renderElement(Head(children))
         IN  IF child.ok
             THEN renderChildren(appendChild(element, child.node), Tail(children))
             ELSE Thrown

renderElement(v) ==
    IF v.typeof = "string" THEN Ok(createTextNode(v.value))
    ELSE LET type == IF "type" \in DOMAIN v THEN v.type ELSE "undefined"
             props == IF "props" \in DOMAIN v THEN v.props ELSE EmptyObject
             created == createElementNode(type)
         IN  IF ~created.ok THEN Thrown
             ELSE LET element ==
                          assignProps(created.node, props, (DOMAIN props) \ {"children"})
                  IN  IF "children" \in DOMAIN props
                      THEN renderChildren(element, props.children)
                      ELSE Ok(element)

(***************************************************************************)
(* The inputs of the view side.                                            *)
(***************************************************************************)
Strings == {"hello", "world"}
Tags == {"div", "span", BadTag}
\* The elements of the generated trees: a tag with its attributes.
ElementHeads ==
    {<<"div", [id |-> "a"]>>, <<"span", EmptyObject>>, <<BadTag, EmptyObject>>}

\* The trees with exactly n nodes, and the lists of trees with n nodes in all,
\* built from strings and createElement.
RECURSIVE TreesOfSize(_), ForestsOfSize(_)
ForestsOfSize(n) ==
    IF n = 0 THEN {<<>>}
    ELSE UNION {{<<t>> \o f : t \in TreesOfSize(m), f \in ForestsOfSize(n - m)} :
                m \in 1..n}

TreesOfSize(n) ==
    IF n = 0 THEN {}
    ELSE (IF n = 1 THEN {Str(s) : s \in Strings} ELSE {})
         \cup {createElement(h[1], h[2], children) :
                 h \in ElementHeads, children \in ForestsOfSize(n - 1)}

VNodes == UNION {TreesOfSize(n) : n \in 1..MaxNodes}

\* createElement('div', {id:'a'}, 'hello', createElement('span', {}, 'world'))
Example ==
    createElement("div", [id |-> "a"],
                  <<Str("hello"), createElement("span", EmptyObject, <<Str("world")>>)>>)

\* The trees the application renders after the first one.
NextTrees ==
    {Str(s) : s \in Strings}
    \cup {createElement(h[1], h[2], <<>>) : h \in ElementHeads}
    \cup {Example}

\* What the container may hold before the first render.
PriorContents ==
    {<<>>,
     <<createTextNode("old")>>,
     <<createElementNode("p").node, createTextNode("old")>>}

\* The arguments of createElement calls: props given or omitted, children
\* that are strings, vNodes or arrays.
PropsInputs ==
    {UndefinedValue, EmptyObject, [id |-> "a"],
     [children |-> <<Str("own")>>], [id |-> "a", children |-> <<Str("own")>>]}
ChildInputs ==
    {Str("hello"), Str("world"),
     createElement("span", EmptyObject, <<Str("world")>>),
     Array(<<Str("hello"), Str("world")>>)}
RECURSIVE ListsUpTo(_, _)
ListsUpTo(S, n) ==
    IF n = 0 THEN {<<>>}
    ELSE ListsUpTo(S, n - 1)
         \cup {Append(l, x) : l \in {m \in ListsUpTo(S, n - 1) : Len(m) = n - 1}, x \in S}

NoCall == [made |-> FALSE]

(***************************************************************************)
(* The view side's operations.                                             *)
(***************************************************************************)
\* The application calls createElement and keeps the result.
CreateElement(type, props, children) ==
    /\ vNode' = createElement(type, props, children)
    /\ call' = [made |-> TRUE, type |-> type, props |-> props, children |-> children]
    /\ UNCHANGED <<container, outcome, renders>>
    /\ UNCHANGED storeVars
    /\ UNCHANGED otherVars

\* The application builds the tree of its next render.
Rebuild(tree) ==
    /\ 0 < renders
    /\ renders < MaxRenders
    /\ vNode' = tree
    /\ outcome' = "none"
    /\ UNCHANGED <<call, container, renders>>
    /\ UNCHANGED storeVars
    /\ UNCHANGED otherVars

\* frame.js:18-21   render(vNode, container): the container is emptied, then
\* renderElement runs, then its result is appended.  A failure of renderElement
\* leaves render after the first statement.
Render ==
    /\ renders < MaxRenders
    /\ LET cleared == clearChildren(container)
           rendered == renderElement(vNode)
       IN  IF rendered.ok
           THEN /\ container' = Append(cleared, rendered.node)
                /\ outcome' = "returned"
           ELSE /\ container' = cleared
                /\ outcome' = "threw"
    /\ renders' = renders + 1
    /\ UNCHANGED <<vNode, call>>
    /\ UNCHANGED storeVars
    /\ UNCHANGED otherVars

ViewIdle ==
    /\ vNode = Str("hello")
    /\ call = NoCall
    /\ container = <<>>
    /\ outcome = "none"
    /\ renders = 0

\* No second store is used: it stays as created.
OneStore == peer = secondStore(rd)

StoreIdle == createStore("frame") /\ rd = "counter" /\ OneStore

Next == StoreNext /\ UNCHANGED viewVars /\ UNCHANGED otherVars

NextRe ==
    \/ StoreNext /\ UNCHANGED viewVars /\ UNCHANGED otherVars
    \/ Subscribe(ReListener) /\ UNCHANGED viewVars /\ UNCHANGED otherVars
    \/ ReDispatch /\ UNCHANGED viewVars /\ UNCHANGED otherVars

NextFaulty ==
    \/ StoreNext /\ UNCHANGED viewVars /\ UNCHANGED otherVars
    \/ Dispatch(NullAction) /\ UNCHANGED viewVars /\ UNCHANGED otherVars
    \/ ReduceThrows /\ UNCHANGED viewVars /\ UNCHANGED peer
    \/ ListenerThrows /\ UNCHANGED viewVars /\ UNCHANGED peer
    \/ Catch /\ UNCHANGED viewVars /\ UNCHANGED peer

NextTwoStores ==
    \/ StoreNext /\ UNCHANGED viewVars /\ UNCHANGED otherVars
    \/ PeerNext /\ UNCHANGED viewVars

NextVNode ==
    \E type \in Tags, props \in PropsInputs, children \in ListsUpTo(ChildInputs, MaxArgs) :
        CreateElement(type, props, children)

NextRender ==
    \/ Render
    \/ \E tree \in NextTrees : Rebuild(tree)

Init == createStore("frame") /\ OneStore /\ ViewIdle
InitReadme == createStore("readme") /\ OneStore /\ ViewIdle
\* Every reducer above raises for dispatch(null): one of them is enough.
InitFaulty == Init /\ rd = "counter"
\* A counter store and a second store with any reducer, the same one included.
InitTwoStores ==
    /\ createStore("frame")
    /\ rd = "counter"
    /\ \E r \in Reducers : peer = secondStore(r)
    /\ ViewIdle
InitVNode == StoreIdle /\ ViewIdle
InitRender ==
    /\ StoreIdle
    /\ vNode \in VNodes
    /\ call = NoCall
    /\ container \in PriorContents
    /\ outcome = "none"
    /\ renders = 0

\* The store of src/src/frame.js with free listeners.
Spec == Init /\ [][Next]_vars
\* The store of the README with free listeners.
SpecReadme == InitReadme /\ [][Next]_vars
\* The store of src/src/frame.js with the listener that dispatches again.
SpecReentrant == Init /\ [][NextRe]_vars
\* The store of src/src/frame.js with a reducer and listeners that may raise.
SpecFaulty == InitFaulty /\ [][NextFaulty]_vars
\* Two stores of src/src/frame.js, used by one application.
SpecTwoStores == InitTwoStores /\ [][NextTwoStores]_vars
\* createElement on the inputs above.
SpecVNode == InitVNode /\ [][NextVNode]_vars
\* render on the generated trees.
SpecRender == InitRender /\ [][NextRender]_vars

(***************************************************************************)
(* Helpers of the properties.                                              *)
(***************************************************************************)
Front(q) == SubSeq(q, 1, Len(q) - 1)
Last(q) == q[Len(q)]

\* reducer(...reducer(reducer(undefined, INIT), a1)..., an)
RECURSIVE FoldReducer(_, _)
FoldReducer(r, as) ==
    IF as = <<>> THEN reducer(r, Undefined, InitAction)
    ELSE reducer(r, FoldReducer(r, Front(as)), Last(as))

\* The frame's notification pass is over.
PassDone(f) ==
    \E i \in 1..Len(DispatchBody) : DispatchBody[i] = "notify" /\ f.ip > i

\* The capabilities, among cs, that were returned for listener l.
CapsOf(cs, l) == {c \in DOMAIN cs : cs[c].listener = l}
UnusedCapsOf(cs, l) == {c \in CapsOf(cs, l) : cs[c].uses = 0}

AllListeners == FreeListeners \cup {ReListener}

\* r reaches a fixed point in one step.
OneStepFixedPoint(r) ==
    \A s \in 0..MaxCalls, a \in Actions :
        reducer(r, reducer(r, s, a), a) = reducer(r, s, a)

\* A vNode tree and an output tree are isomorphic.
RECURSIVE Iso(_, _)
Iso(v, n) ==
    IF v.typeof = "string"
    THEN n.nodeType = "text" /\ n.data = v.value
    ELSE /\ n.nodeType = "element"
         /\ n.tagName = v.type
         /\ DOMAIN n.properties = (DOMAIN v.props) \ {"children"}
         /\ \A k \in DOMAIN n.properties : n.properties[k] = v.props[k]
         /\ Len(n.childNodes) = Len(v.props.children)
         /\ \A i \in 1..Len(n.childNodes) : Iso(v.props.children[i], n.childNodes[i])

\* The output tree of the spec's example: a div with id=a holding the text
\* "hello" and a span holding the text "world".
ExampleOutput ==
    [nodeType |-> "element", tagName |-> "div", properties |-> [id |-> "a"],
     childNodes |->
        <<[nodeType |-> "text", data |-> "hello"],
          [nodeType |-> "element", tagName |-> "span", properties |-> EmptyObject,
           childNodes |-> <<[nodeType |-> "text", data |-> "world"]>>]>>]

\* The children arguments with every array among them replaced by its elements.
RECURSIVE FlattenOneLevel(_)
FlattenOneLevel(children) ==
    IF children = <<>> THEN <<>>
    ELSE LET first == Head(children)
         IN  (IF "items" \in DOMAIN first THEN first.items ELSE <<first>>)
             \o FlattenOneLevel(Tail(children))

\* The attributes a createElement call was given: empty when omitted.
GivenAttributes == IF call.props = UndefinedValue THEN EmptyObject ELSE call.props

(***************************************************************************)
(* C1.  A listener subscribed once is invoked exactly once per dispatch    *)
(* while its unsubscribe capability has not been invoked, and not at all   *)
(* by a dispatch that begins after the capability was invoked.  Stated of  *)
(* every finished notification pass during which no subscription changed.  *)
(***************************************************************************)
C1_OncePerDispatchUntilUnsubscribed ==
    \A i \in DOMAIN stack :
        LET f == stack[i]
        IN  (PassDone(f) /\ ~f.resubscribed) =>
                \A c \in DOMAIN f.capsStart :
                    LET l == f.capsStart[c].listener
                    IN  Cardinality(CapsOf(f.capsStart, l)) = 1 =>
                            Count(f.called, l) =
                                (IF f.capsStart[c].uses = 0 THEN 1 ELSE 0)

(***************************************************************************)
(* C2.  getState() returns the reducer folded over the actions dispatched  *)
(* so far, starting from reducer(undefined, '__INIT__'); the state holds   *)
(* that value whenever no dispatch is about to run its reducer.  With the  *)
(* counter reducer: 0 at first, 1 after one INC, 2 after two.              *)
(***************************************************************************)
C2_StateIsFoldOfActions ==
    /\ seen.has => seen.val = FoldReducer(rd, trace)
    /\ (stack = <<>> \/ Top.reduced) => state = FoldReducer(rd, trace)
    /\ (seen.has /\ rd = "counter" /\ \A i \in DOMAIN trace : trace[i] = "INC")
          => seen.val = Len(trace)

C2_Witness ==
    /\ rd = "counter"
    /\ trace = <<"INC", "INC">>
    /\ stack = <<>>
    /\ seen = Saw(2)

(***************************************************************************)
(* C3.  A call of an unsubscribe capability that was invoked before, or    *)
(* whose listener is not in the list, changes neither the listener list    *)
(* nor the state.                                                          *)
(***************************************************************************)
C3_RepeatedUnsubscribeIsNoOp ==
    [][\A c \in DOMAIN caps :
          ( /\ caps'[c].uses = caps[c].uses + 1
            /\ caps[c].uses >= 1 \/ Count(listeners, caps[c].listener) = 0 )
          => (listeners' = listeners /\ state' = state)]_vars

(***************************************************************************)
(* C4.  After a render call that returned, the container holds exactly the *)
(* one child a single render of that vNode into an empty container gives,  *)
(* whatever the container held before and however many renders preceded.   *)
(***************************************************************************)
C4_RenderReplacesContent ==
    outcome = "returned" =>
        /\ Len(container) = 1
        /\ container = <<renderElement(vNode).node>>

C4_Witness ==
    /\ renders = MaxRenders
    /\ outcome = "returned"
    /\ vNode = Example
    /\ container = <<ExampleOutput>>

(***************************************************************************)
(* C5.  The output tree render appends is isomorphic to the vNode: text    *)
(* for a string, the tag, every attribute but children, and the children   *)
(* in order.  The spec's example yields div#a > ("hello", span > "world"). *)
(***************************************************************************)
C5_OutputIsomorphic ==
    outcome = "returned" =>
        /\ container # <<>>
        /\ Iso(vNode, Last(container))
        /\ vNode = Example => Last(container) = ExampleOutput

C5_Witness ==
    /\ renders = 1
    /\ outcome = "returned"
    /\ vNode = Example
    /\ Last(container) = ExampleOutput

C7_OneEntryPerSubscription ==
    \A i \in DOMAIN stack :
        LET f == stack[i]
        IN  (PassDone(f) /\ ~f.resubscribed) =>
                \A l \in AllListeners :
                    (\A c \in CapsOf(f.capsStart, l) : f.capsStart[c].uses <= 1) =>
                        /\ Count(f.start, l) = Cardinality(UnusedCapsOf(f.capsStart, l))
                        /\ Count(f.called, l) = Cardinality(UnusedCapsOf(f.capsStart, l))

(***************************************************************************)
(* C8 as claimed.  createElement returns the tag, the given attributes and *)
(* a children field holding the children arguments flattened one level.    *)
(***************************************************************************)
C8_ChildrenFlattenedOneLevel ==
    call.made =>
        /\ vNode.type = call.type
        /\ vNode.props.children = FlattenOneLevel(call.children)

(***************************************************************************)
(* C8 as amended.  createElement returns the tag, the given attributes     *)
(* (none when omitted) and a children field holding the list of the        *)
(* children arguments as passed, an array argument staying one entry; the  *)
(* field is always present and wins over an attribute named children.      *)
(***************************************************************************)
C8_ChildrenAsPassed ==
    call.made =>
        /\ vNode.type = call.type
        /\ DOMAIN vNode.props = (DOMAIN GivenAttributes) \cup {"children"}
        /\ \A k \in (DOMAIN GivenAttributes) \ {"children"} :
              vNode.props[k] = GivenAttributes[k]
        /\ vNode.props.children = call.children

C8_Witness ==
    /\ call.made
    /\ "children" \in DOMAIN GivenAttributes
    /\ "id" \in DOMAIN GivenAttributes
    /\ Len(call.children) = MaxArgs
    /\ \E i \in DOMAIN call.children : "items" \in DOMAIN call.children[i]
    /\ vNode.props.children = call.children

(***************************************************************************)
(* C9.  With a reducer that reaches a fixed point in one step, a listener  *)
(* that dispatches during its notification does not recurse without end:   *)
(* no dispatch is ended by the engine running out of stack.                *)
(***************************************************************************)
C9_NoUnboundedRecursion ==
    OneStepFixedPoint(rd) => error # "RangeError"

(***************************************************************************)
(* C10.  A render call leaves the container holding either exactly the new *)
(* subtree or exactly what it held before the call.                        *)
(***************************************************************************)
C10_RenderAllOrNothing ==
    [][renders' = renders + 1 =>
          \/ container' = container
          \/ renderElement(vNode).ok /\ container' = <<renderElement(vNode).node>>]_vars

(***************************************************************************)
(* C11.  Two stores are independent: a call of a method of one store       *)
(* leaves the state and the listeners of the other as they were, a store's *)
(* list holds only listeners subscribed to it, and a dispatch calls only   *)
(* listeners of its own store, also when both stores have the same         *)
(* reducer.                                                                *)
(***************************************************************************)
C11_StoresIndependent ==
    [][/\ (peer' # peer \/ (calls' # calls /\ caps' = caps /\ Len(stack') = Len(stack))) =>
              /\ state' = state
              /\ listeners' = listeners
              /\ \A i \in DOMAIN stack : stack'[i].called = stack[i].called
       /\ (state' # state \/ listeners' # listeners \/ caps' # caps
              \/ Len(stack') # Len(stack)) => peer' = peer
       /\ \A i \in DOMAIN listeners' : listeners'[i] \notin PeerListeners
       /\ \A i \in DOMAIN peer'.listeners : peer'.listeners[i] \in peer'.subscribed
       /\ \A i \in DOMAIN peer'.notified : peer'.notified[i] \in peer'.subscribed
       /\ \A i \in DOMAIN stack' : \A j \in DOMAIN stack'[i].called :
              stack'[i].called[j] \notin PeerListeners]_vars

C11_Witness ==
    /\ peer.rd = rd
    /\ rd = "counter"
    /\ InListener
    /\ Top.called = <<"f">>
    /\ listeners = <<"f">>
    /\ peer.listeners = <<"p">>
    /\ peer.notified = <<"p">>
    /\ state = 1
    /\ peer.state = 2

C13_ReducerFailureLeavesState ==
    [][(aborted'.n = aborted.n + 1 /\ aborted'.cause = "reducer") =>
          LET f == aborted'.frame
          IN  /\ stack # <<>> /\ f = Top
              /\ Len(stack') = Len(stack) - 1
              /\ stack' = <<>> => error' = "TypeError"
              /\ stack' # <<>> => stack'[Len(stack')].pc = "raised"
              /\ state' = state
              /\ state = f.pre
              /\ ~f.reduced
              /\ f.called = <<>>
              /\ listeners' = listeners]_vars

C13_Witness ==
    /\ aborted.has
    /\ aborted.cause = "reducer"
    /\ aborted.state = 1
    /\ rd = "counter"
    /\ trace = <<"INC", NullAction, "INC">>
    /\ Len(stack) = 1
    /\ PassDone(Top)
    /\ Top.called = <<"f">>
    /\ state = 2

(***************************************************************************)
(* C14.  When a listener raises during a notification pass, the exception  *)
(* leaves the dispatch call: the listeners after it are not called, the    *)
(* listeners before it and itself were each called once in subscription    *)
(* order, and the state stays the one the reducer computed.                *)
(***************************************************************************)
C14_ListenerFailureAbortsPass ==
    [][(aborted'.n = aborted.n + 1 /\ aborted'.cause = "listener") =>
          LET f == aborted'.frame
          IN  /\ stack # <<>> /\ f = Top
              /\ Len(stack') = Len(stack) - 1
              /\ stack' = <<>> => error' # "none"
              /\ stack' # <<>> => stack'[Len(stack')].pc = "raised"
              /\ state' = state
              /\ f.reduced
              /\ ~f.nested => state = reducer(rd, f.pre, f.action)
              /\ f.k + 1 <= Len(f.start)
              /\ f.called = SubSeq(f.start, 1, f.k + 1)]_vars

C14_Witness ==
    /\ aborted.has
    /\ aborted.cause = "listener"
    /\ aborted.frame.start = <<"f", "g", "f">>
    /\ aborted.frame.called = <<"f", "g">>
    /\ aborted.frame.pre = 0
    /\ rd = "counter"
    /\ state = 1
    /\ stack = <<>>
    /\ error = "Error"

\* The entries of ls that are not the function l, in order.
EntriesOfOthers(ls, l) == SelectSeq(ls, LAMBDA x : x # l)

(***************************************************************************)
(* C15.  A call of getState, subscribe or an unsubscribe capability leaves *)
(* the state as it was and calls no listener; getState leaves the listener *)
(* list as it was, subscribe appends its listener at the end of the list,  *)
(* and an unsubscribe capability leaves the entries of every other         *)
(* listener in place and in order.                                         *)
(***************************************************************************)
C15_OnlyDispatchChangesState ==
    [][(calls' = calls + 1 /\ Len(stack') = Len(stack)) =>
          /\ state' = state
          /\ \A i \in DOMAIN stack :
                 /\ stack'[i].called = stack[i].called
                 /\ stack'[i].pc = stack[i].pc
                 /\ stack'[i].k = stack[i].k
          /\ caps' = caps => listeners' = listeners
          /\ Len(caps') = Len(caps) + 1 =>
                 listeners' = Append(listeners, caps'[Len(caps')].listener)
          /\ \A c \in DOMAIN caps :
                 caps'[c].uses = caps[c].uses + 1 =>
                     /\ EntriesOfOthers(listeners', caps[c].listener)
                            = EntriesOfOthers(listeners, caps[c].listener)
                     /\ Len(listeners') <= Len(listeners)]_vars

C15_Witness ==
    /\ listeners = <<"f", "g">>
    /\ Len(caps) = 2
    /\ caps[1].uses = 1
    /\ seen = Saw(state)
    /\ state = 1
    /\ stack = <<>>

C17_NoLostUpdateNoStaleRead ==
    /\ stack = <<>> => state = FoldReducer(rd, trace)
    /\ (InListener /\ Top.nested /\ seen.has) =>
           /\ seen.val = state
           /\ seen.val = FoldReducer(rd, trace)

C17_Witness ==
    /\ rd = "last"
    /\ Len(stack) = 1
    /\ Top.pc = "listener"
    /\ Top.cur = "g"
    /\ Top.ops = 1
    /\ Top.called = <<"f", "g">>
    /\ trace = <<"SET", "INC">>
    /\ seen = Saw(1)
    /\ reducer(rd, Top.pre, Top.action) = 2

=============================================================================
